---------------------------- MODULE Spec2Model ----------------------------
(***************************************************************************)
(* Model of src/task7.py: the Bandit vulnerability-flagging pipeline.      *)
(*                                                                         *)
(*   parse_repo_url                  a pure function on strings            *)
(*   run_bandit_on_file              the reduction of one subprocess       *)
(*                                   result to 0/1                         *)
(*   task7_analyze_vulnerable_files  pre-flight, left join, the per-row    *)
(*                                   loop with its cache, the projection   *)
(*                                                                         *)
(* Python values are records [t |-> type name, v |-> payload]; Python      *)
(* strings are TLA+ strings, handled character by character.               *)
(***************************************************************************)
EXTENDS Integers, Sequences, FiniteSets, TLC

VARIABLES
    pc,                 \* position in task7_analyze_vulnerable_files
    task4_df,           \* the file-change table on disk (or Missing)
    task1_df,           \* the pull-request table on disk (or Missing)
    world,              \* the local clones and what Bandit answers per file
    merged,             \* the joined table with its VULNERABLEFILE column
    idx,                \* number of rows of merged already iterated
    bandit_cache,       \* cache_key -> vuln_flag
    total_rows,
    python_candidates,
    scanned_files,
    calls,              \* file paths handed to run_bandit_on_file, in order
    task7_df,           \* the returned table (or NotReturned)
    repo_url,           \* argument of a stand-alone parse_repo_url call
    parse_ret,          \* its result (or NotReturned)
    bandit_proc,        \* subprocess outcome of a stand-alone Bandit call
    bandit_ret          \* result of that run_bandit_on_file (or NotReturned)

vars == <<pc, task4_df, task1_df, world, merged, idx, bandit_cache, total_rows,
          python_candidates, scanned_files, calls, task7_df,
          repo_url, parse_ret, bandit_proc, bandit_ret>>

pipeVars == <<pc, task4_df, task1_df, world, merged, idx, bandit_cache,
              total_rows, python_candidates, scanned_files, calls, task7_df>>

-----------------------------------------------------------------------------
(* Python values *)

\* t: the type, v: the text of a str, n: the number of an int
Str(s)   == [t |-> "str", v |-> s, n |-> 0]
None     == [t |-> "NoneType", v |-> "", n |-> 0]
NaN      == [t |-> "float", v |-> "nan", n |-> 0]
PyInt(k) == [t |-> "int", v |-> "", n |-> k]

isinstance_str(x) == x.t = "str"

PyTuple(elems)  == [t |-> "tuple", v |-> elems]
DataFrame(rows) == [t |-> "DataFrame", v |-> rows]

NotReturned == [t |-> "not-returned", v |-> <<>>]
Missing     == [t |-> "missing-file", v |-> <<>>]

Returned(x) == x.t # "not-returned"
exists(f)   == f.t # "missing-file"

-----------------------------------------------------------------------------
(* str methods *)

Whitespace == {" ", "\t", "\n", "\r"}

CharAt(s, i) == SubSeq(s, i, i)

startswith(s, p) == Len(p) <= Len(s) /\ SubSeq(s, 1, Len(p)) = p

endswith(s, p) ==
    Len(p) <= Len(s) /\ SubSeq(s, Len(s) - Len(p) + 1, Len(s)) = p

\* str.find, 1-based; 0 when p does not occur in s
RECURSIVE find_from(_, _, _)
find_from(s, p, i) ==
    IF i + Len(p) - 1 > Len(s) THEN 0
    ELSE IF SubSeq(s, i, i + Len(p) - 1) = p THEN i
    ELSE find_from(s, p, i + 1)

find(s, p) == find_from(s, p, 1)

contains(s, p) == find(s, p) # 0

RECURSIVE lstrip(_, _)
lstrip(s, chars) ==
    IF Len(s) > 0 /\ CharAt(s, 1) \in chars
    THEN lstrip(SubSeq(s, 2, Len(s)), chars)
    ELSE s

RECURSIVE rstrip(_, _)
rstrip(s, chars) ==
    IF Len(s) > 0 /\ CharAt(s, Len(s)) \in chars
    THEN rstrip(SubSeq(s, 1, Len(s) - 1), chars)
    ELSE s

strip(s, chars) == rstrip(lstrip(s, chars), chars)

\* s.split(sep): always at least one element
RECURSIVE split(_, _)
split(s, sep) ==
    LET i == find(s, sep)
    IN  IF i = 0 THEN <<s>>
        ELSE <<SubSeq(s, 1, i - 1)>> \o split(SubSeq(s, i + Len(sep), Len(s)), sep)

\* s.split(sep, 1)[-1]: the text after the first sep, or s when sep is absent
split1_last(s, sep) ==
    LET i == find(s, sep)
    IN  IF i = 0 THEN s ELSE SubSeq(s, i + Len(sep), Len(s))

LowerChar(c) ==
    CASE c = "A" -> "a" [] c = "B" -> "b" [] c = "C" -> "c" [] c = "D" -> "d"
      [] c = "M" -> "m" [] c = "O" -> "o" [] c = "P" -> "p" [] c = "R" -> "r"
      [] c = "S" -> "s" [] c = "U" -> "u" [] c = "Y" -> "y"
      [] OTHER -> c

RECURSIVE lower(_)
lower(s) ==
    IF Len(s) = 0 THEN s
    ELSE LowerChar(CharAt(s, 1)) \o lower(SubSeq(s, 2, Len(s)))

RECURSIVE replace(_, _, _)
replace(s, old, new) ==
    LET i == find(s, old)
    IN  IF i = 0 THEN s
        ELSE SubSeq(s, 1, i - 1) \o new
             \o replace(SubSeq(s, i + Len(old), Len(s)), old, new)

-----------------------------------------------------------------------------
(* parse_repo_url *)

parse_repo_url(url) ==
    IF ~isinstance_str(url) THEN <<None, None>>
    ELSE
    LET s0 == strip(url.v, Whitespace)
        s  == IF endswith(s0, ".git") THEN SubSeq(s0, 1, Len(s0) - 4) ELSE s0
        api == split(strip(split1_last(s, "api.github.com/repos/"), {"/"}), "/")
        web == split(strip(
                   IF startswith(s, "http://") \/ startswith(s, "https://")
                   THEN split1_last(s, "github.com")
                   ELSE IF startswith(s, "git@github.com:")
                   THEN split1_last(s, "git@github.com:")
                   ELSE split1_last(s, "github.com"), {"/"}), "/")
    IN  IF contains(s, "api.github.com/repos/") /\ Len(api) >= 2
        THEN <<Str(api[1]), Str(api[2])>>
        ELSE IF contains(s, "github.com") /\ Len(web) >= 2
        THEN <<Str(web[1]), Str(web[2])>>
        ELSE <<None, None>>

-----------------------------------------------------------------------------
(* run_bandit_on_file *)

\* What subprocess.run(["bandit", "-f", "json", "-q", file_path]) produced:
\* installed = FALSE is the FileNotFoundError of a missing binary.
CompletedProcess(rc, out) == [installed |-> TRUE, returncode |-> rc, stdout |-> out]
BanditNotInstalled == [installed |-> FALSE, returncode |-> 0, stdout |-> ""]

JSONDecodeError == [t |-> "JSONDecodeError", v |-> <<>>, n |-> 0]
PyList(elems)   == [t |-> "list", v |-> elems, n |-> 0]
PyDict(items)   == [t |-> "dict", v |-> items, n |-> 0]

NoResultsKey == [errors \in {} |-> None]
Finding      == PyDict([test_id |-> Str("B101")])

\* json.loads on the documents used as analyzer output
json_loads(text) ==
    CASE text = "{\"results\": []}"            -> PyDict([results |-> PyList(<<>>)])
      [] text = "{\"results\": [{\"test_id\": \"B101\"}]}"
                                               -> PyDict([results |-> PyList(<<Finding>>)])
      [] text = "{\"results\": [{\"test_id\": \"B101\"}, {\"test_id\": \"B101\"}]}"
                                               -> PyDict([results |-> PyList(<<Finding, Finding>>)])
      [] text = "{\"results\": null}"          -> PyDict([results |-> None])
      [] text = "{\"results\": 2}"             -> PyDict([results |-> PyInt(2)])
      [] text = "{\"results\": \"B101\"}"      -> PyDict([results |-> Str("B101")])
      [] text = "{\"errors\": []}"             -> PyDict([errors |-> PyList(<<>>)])
      [] text = "{}"                           -> PyDict(NoResultsKey)
      [] text = "[]"                           -> PyList(<<>>)
      [] text = "null"                         -> None
      [] OTHER                                 -> JSONDecodeError

\* data.get(key, default)
dict_get(data, key, default) ==
    IF key \in DOMAIN data.v THEN data.v[key] ELSE default

has_len(x) == x.t \in {"list", "str", "dict"}

len(x) == IF x.t = "dict" THEN Cardinality(DOMAIN x.v) ELSE Len(x.v)

Return(value) == [raised |-> "", value |-> value]
Raise(exc)    == [raised |-> exc, value |-> 0]

\* the body of the try block
bandit_try(proc) ==
    IF ~proc.installed THEN Raise("FileNotFoundError")
    ELSE IF proc.returncode \notin {0, 1} THEN Return(0)
    ELSE IF strip(proc.stdout, Whitespace) = "" THEN Return(0)
    ELSE LET data == json_loads(proc.stdout)
         IN  IF data.t = "JSONDecodeError" THEN Return(0)
             ELSE IF data.t # "dict" THEN Raise("AttributeError")
             ELSE LET findings == dict_get(data, "results", PyList(<<>>))
                  IN  IF ~has_len(findings) THEN Raise("TypeError")
                      ELSE Return(IF len(findings) > 0 THEN 1 ELSE 0)

\* without the two handlers every exception would leave the function
run_bandit_on_file_unguarded(proc) == bandit_try(proc)

\* the call's outcome: both handlers turn an exception into `return 0`
run_bandit_on_file(proc) ==
    LET r == bandit_try(proc)
    IN  IF r.raised = "" THEN r
        ELSE IF r.raised = "FileNotFoundError" THEN Return(0)
        ELSE Return(0)

-----------------------------------------------------------------------------
(* Stand-alone calls of the two pure functions, over bounded input families *)

MaxSegments == 3        \* path segments after the host in a generated URL
MaxExitCode == 3        \* analyzer exit codes range over -1 .. MaxExitCode

RECURSIVE join(_, _)
join(parts, sep) ==
    IF Len(parts) = 0 THEN ""
    ELSE IF Len(parts) = 1 THEN parts[1]
    ELSE parts[1] \o sep \o join(Tail(parts), sep)

SeqsUpTo(S, n) == UNION {[1..k -> S] : k \in 0..n}

UrlPrefixes == {"", "https://", "http://", "git@", " https://"}
UrlHosts    == {"github.com", "api.github.com", "example.org"}
UrlMarks    == {"/", ":", "/repos/"}
UrlSuffixes == {"", ".git", "/", ".git\n"}
UrlSegments == {"o", "r", ""}

UrlInputs ==
    {Str(p \o h \o m \o join(segs, "/") \o x) :
        p \in UrlPrefixes, h \in UrlHosts, m \in UrlMarks,
        segs \in SeqsUpTo(UrlSegments, MaxSegments), x \in UrlSuffixes}
    \cup {Str("not-a-url"), Str("https://github.com/onlyowner"), Str(""),
          NaN, None, PyInt(7)}

Stdouts ==
    {"", " \n", "Traceback (most recent call last):",
     "{\"results\": []}",
     "{\"results\": [{\"test_id\": \"B101\"}]}",
     "{\"results\": [{\"test_id\": \"B101\"}, {\"test_id\": \"B101\"}]}",
     "{\"results\": null}", "{\"results\": 2}", "{\"results\": \"B101\"}",
     "{\"errors\": []}", "{}", "[]", "null"}

ProcInputs ==
    {BanditNotInstalled}
    \cup {CompletedProcess(rc, out) : rc \in -1..MaxExitCode, out \in Stdouts}

IdlePipeline ==
    /\ pc = "idle"
    /\ task4_df = Missing
    /\ task1_df = Missing
    /\ world = <<>>
    /\ merged = <<>>
    /\ idx = 0
    /\ bandit_cache = <<>>
    /\ total_rows = 0
    /\ python_candidates = 0
    /\ scanned_files = 0
    /\ calls = <<>>
    /\ task7_df = NotReturned

InitParse ==
    /\ IdlePipeline
    /\ repo_url \in UrlInputs
    /\ parse_ret = NotReturned
    /\ bandit_proc = BanditNotInstalled
    /\ bandit_ret = NotReturned

CallParse ==
    /\ pc = "idle"
    /\ ~Returned(parse_ret)
    /\ parse_ret' = PyTuple(parse_repo_url(repo_url))
    /\ UNCHANGED <<pipeVars, repo_url, bandit_proc, bandit_ret>>

SpecParse == InitParse /\ [][CallParse]_vars

InitBandit ==
    /\ IdlePipeline
    /\ repo_url = None
    /\ parse_ret = NotReturned
    /\ bandit_proc \in ProcInputs
    /\ bandit_ret = NotReturned

CallBandit ==
    /\ pc = "idle"
    /\ ~Returned(bandit_ret)
    /\ LET out == run_bandit_on_file(bandit_proc)
       IN  bandit_ret' = IF out.raised = "" THEN PyTuple(<<out.value>>)
                         ELSE [t |-> "raised", v |-> <<out.raised>>]
    /\ UNCHANGED <<pipeVars, repo_url, parse_ret, bandit_proc>>

SpecBandit == InitBandit /\ [][CallBandit]_vars

-----------------------------------------------------------------------------
(* task7_analyze_vulnerable_files: helpers *)

REPOS_BASE_DIR == "repos"

\* os.path.join (posixpath): a component starting with "/" restarts the path
RECURSIVE os_path_join(_, _)
os_path_join(path, rest) ==
    IF Len(rest) = 0 THEN path
    ELSE LET b == Head(rest)
             p == IF startswith(b, "/") THEN b
                  ELSE IF path = "" \/ endswith(path, "/") THEN path \o b
                  ELSE path \o "/" \o b
         IN  os_path_join(p, Tail(rest))

Digit(d) ==
    CASE d = 0 -> "0" [] d = 1 -> "1" [] d = 2 -> "2" [] d = 3 -> "3"
      [] d = 4 -> "4" [] d = 5 -> "5" [] d = 6 -> "6" [] d = 7 -> "7"
      [] d = 8 -> "8" [] d = 9 -> "9"

RECURSIVE int_to_str(_)
int_to_str(n) ==
    IF n < 0 THEN "-" \o int_to_str(0 - n)
    ELSE IF n < 10 THEN Digit(n)
    ELSE int_to_str(n \div 10) \o Digit(n % 10)

\* Series.astype(str), element-wise
astype_str(x) ==
    IF x.t = "int" THEN int_to_str(x.n) ELSE x.v

\* task4_df.merge(task1_df[["ID", "REPOURL"]], left_on="PRID", right_on="ID",
\* how="left"), the ID column dropped and VULNERABLEFILE initialised to 0
JoinedRow(l, url) ==
    [PRID |-> astype_str(l.PRID), PRSHA |-> l.PRSHA, PRFILE |-> l.PRFILE,
     REPOURL |-> url, VULNERABLEFILE |-> 0]

RECURSIVE merge(_, _)
merge(left, right) ==
    IF Len(left) = 0 THEN <<>>
    ELSE LET l == Head(left)
             matches == SelectSeq(right,
                            LAMBDA r : astype_str(r.ID) = astype_str(l.PRID))
             rows == IF Len(matches) = 0 THEN <<JoinedRow(l, NaN)>>
                     ELSE [j \in 1..Len(matches) |-> JoinedRow(l, matches[j].REPOURL)]
         IN  rows \o merge(Tail(left), right)

\* the extension compared without lower()
is_python_case_sensitive(filename) == endswith(filename, ".py")

is_python(filename) == endswith(lower(filename), ".py")

usable_url(url) == isinstance_str(url) /\ strip(url.v, Whitespace) # ""

\* `not owner or not repo_name`
falsy(x) == x.t = "NoneType" \/ (x.t = "str" /\ x.v = "")

local_repo_dir(owner, repo_name) ==
    os_path_join(REPOS_BASE_DIR, <<owner, repo_name>>)

rel_path(filename) == lstrip(filename, {"/", "\\"})

rel_path_parts(filename) == split(replace(rel_path(filename), "\\", "/"), "/")

file_path(repo_dir, filename) == os_path_join(repo_dir, rel_path_parts(filename))

\* a key that names the clone only
cache_key_repo_only(repo_dir, filename) == <<repo_dir, "">>

cache_key(repo_dir, filename) == <<repo_dir, rel_path(filename)>>

\* os.path.isfile and the analyzer subprocess, answered by the environment
isfile(path) == path \in DOMAIN world.files

subprocess_run(path) ==
    IF world.bandit_installed THEN world.files[path] ELSE BanditNotInstalled

\* the row under the loop's cursor
row == merged[idx + 1]

\* what one iteration derives from a candidate row: lines 174-190
Locate(url, filename) ==
    LET parsed   == parse_repo_url(url)
        repo_dir == local_repo_dir(parsed[1].v, parsed[2].v)
    IN  [owner      |-> parsed[1],
         repo_name  |-> parsed[2],
         file_path  |-> file_path(repo_dir, filename),
         cache_key  |-> cache_key(repo_dir, filename)]

-----------------------------------------------------------------------------
(* task7_analyze_vulnerable_files: inputs *)

MaxRows    == 3         \* rows of the file-change table
MaxPRs     == 2         \* records of the pull-request table
MaxFairPRs == 1         \* the same, in the runs checked for termination

FileChange(prid, prfile) == [PRID |-> prid, PRFILE |-> prfile]

FileChanges ==
    {FileChange(PyInt(1), NaN),
     FileChange(PyInt(1), Str("README.md")),
     FileChange(PyInt(1), Str("sub/a.py")),
     FileChange(PyInt(1), Str("/sub\\a.py")),
     FileChange(PyInt(1), Str("B.PY")),
     FileChange(PyInt(2), Str("B.PY"))}

PullRequest(id, url) == [ID |-> id, REPOURL |-> url]

PullRequests ==
    {PullRequest(Str("1"), Str("https://github.com/o/r.git")),
     PullRequest(PyInt(2), Str("https://github.com/onlyowner")),
     PullRequest(PyInt(2), Str("  "))}

\* the file-change table: row i carries commit i
Task4Tables ==
    {DataFrame([i \in 1..Len(q) |->
                   [PRID |-> q[i].PRID, PRSHA |-> i, PRFILE |-> q[i].PRFILE]]) :
        q \in SeqsUpTo(FileChanges, MaxRows)}

Task1Tables(n) == {DataFrame(q) : q \in SeqsUpTo(PullRequests, n)}

FileA == "repos/o/r/sub/a.py"
FileB == "repos/o/r/B.PY"

OneFinding == CompletedProcess(1, "{\"results\": [{\"test_id\": \"B101\"}]}")
NoFinding  == CompletedProcess(0, "{\"results\": []}")
Crashed    == CompletedProcess(2, "")
Garbled    == CompletedProcess(1, "Traceback (most recent call last):")

World(installed, files) == [bandit_installed |-> installed, files |-> files]

\* world.files: the regular files under repos/ and Bandit's verdict on each
Worlds ==
    {World(TRUE,  (FileA :> OneFinding) @@ (FileB :> NoFinding)),
     World(TRUE,  (FileA :> Crashed)),
     World(TRUE,  (FileA :> Garbled) @@ (FileB :> OneFinding)),
     World(FALSE, (FileA :> OneFinding) @@ (FileB :> OneFinding))}

\* The loop's pure computations, tabulated once over the values the input
\* tables can hold (the model checker evaluates a constant only once).
FileNames == {c.PRFILE.v : c \in {d \in FileChanges : isinstance_str(d.PRFILE)}}
RepoUrls  == {p.REPOURL.v : p \in PullRequests} \cup {NaN.v}
Procs     == {BanditNotInstalled}
             \cup UNION {{w.files[f] : f \in DOMAIN w.files} : w \in Worlds}

IsPythonOf  == [f \in FileNames |-> is_python(f)]
UsableUrlOf == [u \in RepoUrls |-> usable_url(Str(u))]
LocateOf    == [u \in RepoUrls, f \in FileNames |-> Locate(Str(u), f)]
BanditOf    == [q \in Procs |-> run_bandit_on_file(q)]

\* the state on entry: the two CSV files as found on disk, nothing computed
Entry(maxPRs) ==
    /\ pc = "start"
    /\ task4_df \in {Missing} \cup Task4Tables
    /\ task1_df \in {Missing} \cup Task1Tables(maxPRs)
    /\ world \in Worlds
    /\ merged = <<>>
    /\ idx = 0
    /\ bandit_cache = <<>>
    /\ total_rows = 0
    /\ python_candidates = 0
    /\ scanned_files = 0
    /\ calls = <<>>
    /\ task7_df = NotReturned
    /\ repo_url = None
    /\ parse_ret = NotReturned
    /\ bandit_proc = BanditNotInstalled
    /\ bandit_ret = NotReturned

Init == Entry(MaxPRs)

FairInit == Entry(MaxFairPRs)

-----------------------------------------------------------------------------
(* task7_analyze_vulnerable_files: steps *)

pureVars == <<repo_url, parse_ret, bandit_proc, bandit_ret>>
envVars  == <<task4_df, task1_df, world>>

\* pre-flight: a missing input table raises FileNotFoundError
RaiseMissingInput ==
    /\ pc = "start"
    /\ ~exists(task4_df) \/ ~exists(task1_df)
    /\ pc' = "raised"
    /\ UNCHANGED <<envVars, merged, idx, bandit_cache, total_rows,
                   python_candidates, scanned_files, calls, task7_df, pureVars>>

\* read both tables, join them, initialise the flag column and the counters
LoadAndMerge ==
    /\ pc = "start"
    /\ exists(task4_df) /\ exists(task1_df)
    /\ merged' = merge(task4_df.v, task1_df.v)
    /\ total_rows' = Len(merged')
    /\ bandit_cache' = <<>>
    /\ python_candidates' = 0
    /\ scanned_files' = 0
    /\ idx' = 0
    /\ pc' = "loop"
    /\ UNCHANGED <<envVars, calls, task7_df, pureVars>>

InLoop == pc = "loop" /\ idx < Len(merged)

Continue == idx' = idx + 1 /\ UNCHANGED <<pc, envVars, task7_df, pureVars>>

SkipNonString ==
    /\ InLoop
    /\ ~isinstance_str(row.PRFILE)
    /\ Continue
    /\ UNCHANGED <<merged, bandit_cache, total_rows, python_candidates,
                   scanned_files, calls>>

\* the candidate counter bumped before the extension test
SkipNonPythonCounted ==
    /\ InLoop
    /\ isinstance_str(row.PRFILE)
    /\ ~IsPythonOf[row.PRFILE.v]
    /\ python_candidates' = python_candidates + 1
    /\ Continue
    /\ UNCHANGED <<merged, bandit_cache, total_rows, scanned_files, calls>>

SkipNonPython ==
    /\ InLoop
    /\ isinstance_str(row.PRFILE)
    /\ ~IsPythonOf[row.PRFILE.v]
    /\ Continue
    /\ UNCHANGED <<merged, bandit_cache, total_rows, python_candidates,
                   scanned_files, calls>>

IsCandidate == InLoop /\ isinstance_str(row.PRFILE) /\ IsPythonOf[row.PRFILE.v]

HasUsableUrl == isinstance_str(row.REPOURL) /\ UsableUrlOf[row.REPOURL.v]

SkipNoRepoUrl ==
    /\ IsCandidate
    /\ python_candidates' = python_candidates + 1
    /\ ~HasUsableUrl
    /\ Continue
    /\ UNCHANGED <<merged, bandit_cache, total_rows, scanned_files, calls>>

\* located: the URL parsed to an owner and a repository name
loc     == LocateOf[row.REPOURL.v, row.PRFILE.v]
Located == IsCandidate /\ HasUsableUrl /\ ~falsy(loc.owner) /\ ~falsy(loc.repo_name)

SkipUnparsedUrl ==
    /\ IsCandidate
    /\ python_candidates' = python_candidates + 1
    /\ HasUsableUrl
    /\ ~(~falsy(loc.owner) /\ ~falsy(loc.repo_name))
    /\ Continue
    /\ UNCHANGED <<merged, bandit_cache, total_rows, scanned_files, calls>>

SkipNoLocalFile ==
    /\ Located
    /\ python_candidates' = python_candidates + 1
    /\ ~isfile(loc.file_path)
    /\ Continue
    /\ UNCHANGED <<merged, bandit_cache, total_rows, scanned_files, calls>>

\* a lookup that never hits
in_cache_never(key) == FALSE

in_cache(key) == key \in DOMAIN bandit_cache

SetFlag(flag) == merged' = [merged EXCEPT ![idx + 1].VULNERABLEFILE = flag]

\* a hit counted as a scan
ScanCachedCounted ==
    /\ Located
    /\ python_candidates' = python_candidates + 1
    /\ isfile(loc.file_path)
    /\ in_cache(loc.cache_key)
    /\ scanned_files' = scanned_files + 1
    /\ SetFlag(bandit_cache[loc.cache_key])
    /\ Continue
    /\ UNCHANGED <<bandit_cache, total_rows, calls>>

ScanCached ==
    /\ Located
    /\ python_candidates' = python_candidates + 1
    /\ isfile(loc.file_path)
    /\ in_cache(loc.cache_key)
    /\ SetFlag(bandit_cache[loc.cache_key])
    /\ Continue
    /\ UNCHANGED <<bandit_cache, total_rows, scanned_files, calls>>

\* an exception leaving run_bandit_on_file would leave the whole function
ScanFresh ==
    /\ Located
    /\ python_candidates' = python_candidates + 1
    /\ isfile(loc.file_path)
    /\ ~in_cache(loc.cache_key)
    /\ scanned_files' = scanned_files + 1
    /\ LET out == BanditOf[subprocess_run(loc.file_path)]
           vuln_flag == out.value
       IN  /\ calls' = Append(calls, [cache_key |-> loc.cache_key,
                                      file_path |-> loc.file_path,
                                      vuln_flag |-> vuln_flag])
           /\ IF out.raised = ""
              THEN /\ bandit_cache' = (loc.cache_key :> vuln_flag) @@ bandit_cache
                   /\ SetFlag(vuln_flag)
                   /\ Continue
              ELSE /\ pc' = "raised"
                   /\ UNCHANGED <<bandit_cache, merged, idx, envVars, task7_df,
                                  pureVars>>
    /\ UNCHANGED total_rows

\* project the output columns (REPOURL is dropped), write and return the table
OutputRow(r) ==
    [PRID |-> r.PRID, PRSHA |-> r.PRSHA, PRFILE |-> r.PRFILE,
     VULNERABLEFILE |-> r.VULNERABLEFILE]

Finish ==
    /\ pc = "loop"
    /\ idx = Len(merged)
    /\ task7_df' = DataFrame([i \in 1..Len(merged) |-> OutputRow(merged[i])])
    /\ pc' = "done"
    /\ UNCHANGED <<envVars, merged, idx, bandit_cache, total_rows,
                   python_candidates, scanned_files, calls, pureVars>>

Next ==
    \/ RaiseMissingInput
    \/ LoadAndMerge
    \/ SkipNonString
    \/ SkipNonPython
    \/ SkipNoRepoUrl
    \/ SkipUnparsedUrl
    \/ SkipNoLocalFile
    \/ ScanCached
    \/ ScanFresh
    \/ Finish

Spec == Init /\ [][Next]_vars

\* the loop is sequential and every step it takes returns: an enabled step
\* is eventually taken
FairSpec == FairInit /\ [][Next]_vars /\ WF_vars(Next)

-----------------------------------------------------------------------------
(* Vocabulary of the properties, stated without the loop's own operators *)

PyExtensions == {".py", ".Py", ".pY", ".PY"}

\* a string ending in .py, compared case-insensitively
EndsInPy(x) == isinstance_str(x) /\ \E e \in PyExtensions : endswith(x.v, e)

\* a non-blank string that parse_repo_url resolves to an owner and a name
UrlResolves(url) ==
    /\ isinstance_str(url)
    /\ \E i \in 1..Len(url.v) : CharAt(url.v, i) \notin Whitespace
    /\ LET parsed == parse_repo_url(url)
       IN  /\ parsed[1].t = "str" /\ parsed[1].v # ""
           /\ parsed[2].t = "str" /\ parsed[2].v # ""

UrlResolvesOf == [u \in RepoUrls |-> UrlResolves(Str(u))]

\* the findings Bandit's report lists, 0 when there is no readable report
FindingsIn(proc) ==
    LET data == json_loads(proc.stdout)
    IN  IF /\ proc.installed
           /\ proc.returncode \in {0, 1}
           /\ data.t = "dict"
           /\ "results" \in DOMAIN data.v
           /\ data.v["results"].t = "list"
        THEN Len(data.v["results"].v)
        ELSE 0

\* the filesystem path a joined row resolves to
RowPath(r) == LocateOf[r.REPOURL.v, r.PRFILE.v].file_path
RowKey(r)  == LocateOf[r.REPOURL.v, r.PRFILE.v].cache_key

\* the row passes every skip of the loop and reaches the cache
ReachesCache(r) ==
    /\ EndsInPy(r.PRFILE)
    /\ isinstance_str(r.REPOURL) /\ UrlResolvesOf[r.REPOURL.v]
    /\ RowPath(r) \in DOMAIN world.files

\* Bandit reports at least one finding for the row's file
Reported(r) ==
    world.bandit_installed /\ FindingsIn(world.files[RowPath(r)]) > 0

Flags == [i \in 1..Len(merged) |-> merged[i].VULNERABLEFILE]

Running == pc \in {"loop", "done"}

-----------------------------------------------------------------------------
(* C1 *)

\* C1: in one run the analyzer is invoked at most once for each distinct
\* resolved filesystem path, also when two rows spell the same path with
\* different separators.
C1_OneScanPerFile ==
    \A i, j \in 1..Len(calls) :
        i # j => calls[i].file_path # calls[j].file_path

-----------------------------------------------------------------------------
(* C2 *)

CallsFor(key) == {i \in 1..Len(calls) : calls[i].cache_key = key}

\* C2: every cache key is written at most once: exactly one analyzer
\* invocation stands behind each cache entry and the entry holds its result;
\* every processed row that reached the cache, the first one and every later
\* one, carries the stored value.
C2_CacheWrittenOnce ==
    /\ \A key \in DOMAIN bandit_cache :
          /\ Cardinality(CallsFor(key)) = 1
          /\ \A i \in CallsFor(key) : calls[i].vuln_flag = bandit_cache[key]
    /\ \A i \in 1..Len(calls) : calls[i].cache_key \in DOMAIN bandit_cache
    /\ Running =>
          \A j \in 1..idx :
              ReachesCache(merged[j]) =>
                  /\ RowKey(merged[j]) \in DOMAIN bandit_cache
                  /\ merged[j].VULNERABLEFILE = bandit_cache[RowKey(merged[j])]

\* two processed rows shared one key: the second was served from the cache
C2_Witness ==
    /\ Running
    /\ \E i, j \in 1..idx :
          /\ i < j
          /\ ReachesCache(merged[i]) /\ ReachesCache(merged[j])
          /\ RowKey(merged[i]) = RowKey(merged[j])
          /\ merged[j].VULNERABLEFILE = 1

-----------------------------------------------------------------------------
(* C3 *)

\* C3: at the end of a run a row's VULNERABLEFILE is 1 exactly when its
\* PRFILE ends in .py (case-insensitive), its REPOURL is a non-blank string
\* that parse_repo_url resolves, the resolved path is a local file and Bandit
\* reports at least one finding for it; otherwise it is 0.
C3_FlagIffVulnerable ==
    pc = "done" =>
        \A i \in 1..Len(merged) :
            /\ merged[i].VULNERABLEFILE \in {0, 1}
            /\ merged[i].VULNERABLEFILE = 1
                  <=> (ReachesCache(merged[i]) /\ Reported(merged[i]))

\* a row without a usable URL stays 0 beside a row that flags the same file
C3_Witness ==
    /\ pc = "done"
    /\ \E i, j \in 1..Len(merged) :
          /\ merged[i].VULNERABLEFILE = 1
          /\ merged[j].VULNERABLEFILE = 0
          /\ merged[i].PRFILE = merged[j].PRFILE
          /\ ~(isinstance_str(merged[j].REPOURL) /\ UrlResolvesOf[merged[j].REPOURL.v])

-----------------------------------------------------------------------------
(* C4 *)

NotSource(r) == ~EndsInPy(r.PRFILE)

\* C4: a row whose PRFILE is absent or does not end in .py keeps flag 0, and
\* processing it invokes no analyzer and leaves the cache, the table and both
\* counters unchanged.
C4_NonSourceRowIsSkipped ==
    /\ [](\A i \in 1..Len(merged) :
             NotSource(merged[i]) => merged[i].VULNERABLEFILE = 0)
    /\ [][(pc = "loop" /\ idx < Len(merged) /\ NotSource(merged[idx + 1]))
             => /\ merged' = merged
                /\ calls' = calls
                /\ bandit_cache' = bandit_cache
                /\ python_candidates' = python_candidates
                /\ scanned_files' = scanned_files]_vars

\* a non-source row was just passed over while the cache already held a scan
C4_Witness ==
    /\ pc = "loop"
    /\ idx >= 2
    /\ NotSource(merged[idx])
    /\ Len(calls) >= 1

-----------------------------------------------------------------------------
(* C5 *)

\* C5: the exit-code contract of run_bandit_on_file: exit code 0 yields 0
\* whatever stdout holds; exit code 1 yields 1 exactly when stdout parses to
\* a report with a non-empty findings collection; any other exit code, empty
\* or unparseable stdout and a missing binary yield 0; the result is 0 or 1.
C5_ExitCodeContract ==
    Returned(bandit_ret) =>
        LET proc == bandit_proc
            ret  == bandit_ret.v[1]
            data == json_loads(proc.stdout)
            findings == data.t = "dict" /\ "results" \in DOMAIN data.v
                        /\ has_len(data.v["results"])
                        /\ len(data.v["results"]) > 0
        IN  /\ bandit_ret.t = "tuple"
            /\ ret \in {0, 1}
            /\ ~proc.installed => ret = 0
            /\ (proc.installed /\ proc.returncode = 0) => ret = 0
            /\ (proc.installed /\ proc.returncode = 1) => (ret = 1 <=> findings)
            /\ (proc.installed /\ proc.returncode \notin {0, 1}) => ret = 0
            /\ (proc.installed /\ data.t = "JSONDecodeError") => ret = 0

-----------------------------------------------------------------------------
(* C6 *)

\* the segments after the API marker, once whitespace and one ".git" are cut
ApiSegments(text) ==
    LET s0 == strip(text, Whitespace)
        s  == IF endswith(s0, ".git") THEN SubSeq(s0, 1, Len(s0) - 4) ELSE s0
    IN  split(strip(split1_last(s, "api.github.com/repos/"), {"/"}), "/")

IsApiUrl(text) == contains(strip(text, Whitespace), "api.github.com/repos/")

AcceptedForms ==
    {"https://github.com/o/r", "https://github.com/o/r.git",
     "git@github.com:o/r.git", "https://api.github.com/repos/o/r"}

\* C6: parse_repo_url returns (absent, absent) for a non-string, for a URL of
\* no accepted shape and whenever fewer than two segments follow the matched
\* marker, in particular for an API-style URL with fewer than two segments
\* after "repos/"; an API-style URL with two segments yields them; the four
\* accepted forms of o/r yield (o, r).
C6_ParseContract ==
    Returned(parse_ret) =>
        LET owner == parse_ret.v[1]
            repo  == parse_ret.v[2]
        IN  /\ ~isinstance_str(repo_url) => (owner = None /\ repo = None)
            /\ (isinstance_str(repo_url) /\ repo_url.v \in AcceptedForms)
                  => (owner = Str("o") /\ repo = Str("r"))
            /\ (isinstance_str(repo_url)
                  /\ repo_url.v \in {"not-a-url", "https://github.com/onlyowner"})
                  => (owner = None /\ repo = None)
            /\ (isinstance_str(repo_url) /\ IsApiUrl(repo_url.v))
                  => IF Len(ApiSegments(repo_url.v)) >= 2
                     THEN /\ owner = Str(ApiSegments(repo_url.v)[1])
                          /\ repo = Str(ApiSegments(repo_url.v)[2])
                     ELSE owner = None /\ repo = None

-----------------------------------------------------------------------------
(* C7 *)

\* three file changes, each joined to one valid repository URL: (a) a .py
\* file present locally with one finding, (b) a different .py file present
\* locally with none, (c) a .md file
Scenario ==
    /\ exists(task4_df) /\ Len(task4_df.v) = 3
    /\ Len(merged) = 3
    /\ \A i \in 1..3 :
          isinstance_str(merged[i].REPOURL) /\ UrlResolvesOf[merged[i].REPOURL.v]
    /\ ReachesCache(merged[1]) /\ ReachesCache(merged[2])
    /\ RowPath(merged[1]) # RowPath(merged[2])
    /\ world.bandit_installed
    /\ world.files[RowPath(merged[1])].returncode = 1
    /\ FindingsIn(world.files[RowPath(merged[1])]) = 1
    /\ world.files[RowPath(merged[2])].returncode = 0
    /\ FindingsIn(world.files[RowPath(merged[2])]) = 0
    /\ isinstance_str(merged[3].PRFILE) /\ endswith(merged[3].PRFILE.v, ".md")

\* C7 as stated: the scenario yields flags [1, 0, 0], 2 source-file
\* candidates and 1 distinct file actually scanned.
C7_ScenarioAsStated ==
    (pc = "done" /\ Scenario) =>
        /\ Flags = <<1, 0, 0>>
        /\ python_candidates = 2
        /\ scanned_files = 1

\* C7 amended: the scenario yields flags [1, 0, 0], 2 source-file candidates
\* and 2 files scanned, one analyzer invocation for each of the two distinct
\* .py files.
C7_ScenarioAmended ==
    (pc = "done" /\ Scenario) =>
        /\ Flags = <<1, 0, 0>>
        /\ python_candidates = 2
        /\ scanned_files = 2
        /\ Len(calls) = 2

C7_Witness == pc = "done" /\ Scenario

-----------------------------------------------------------------------------
(* C8 *)

\* C8: the output table has exactly one row, with one 0/1 flag, for each row
\* of the file-change table, in the same order, whatever the pull-request
\* table holds.
C8_OneRowPerFileChange ==
    pc = "done" =>
        /\ Len(task7_df.v) = Len(task4_df.v)
        /\ \A i \in 1..Len(task7_df.v) :
              /\ i <= Len(task4_df.v)
              /\ task7_df.v[i].PRSHA = task4_df.v[i].PRSHA
              /\ task7_df.v[i].PRFILE = task4_df.v[i].PRFILE
              /\ task7_df.v[i].VULNERABLEFILE \in {0, 1}

-----------------------------------------------------------------------------
(* C9 *)

InputsExist == exists(task4_df) /\ exists(task1_df)

\* C9: with both input tables present every run completes, having iterated
\* every row and returned the full table, whatever per-row failures occur;
\* only a missing input table stops the run, and it does so before any row
\* is processed or any analyzer invocation is made.
C9_RunCompletes ==
    /\ (pc = "start" /\ InputsExist)
          ~> (/\ pc = "done"
              /\ idx = total_rows
              /\ total_rows = Len(merged)
              /\ Len(task7_df.v) = total_rows)
    /\ [](pc = "raised" =>
              /\ ~InputsExist
              /\ idx = 0 /\ merged = <<>> /\ calls = <<>>
              /\ ~Returned(task7_df))
    /\ [](InputsExist => pc # "raised")
    /\ [](~InputsExist => pc \in {"start", "raised"})

\* a completed run that met a row without a repository URL, a missing local
\* file and an analyzer that exited with an error
C9_Witness ==
    /\ pc = "done"
    /\ \E i \in 1..Len(merged) :
          EndsInPy(merged[i].PRFILE) /\ ~isinstance_str(merged[i].REPOURL)
    /\ \E i \in 1..Len(merged) :
          /\ EndsInPy(merged[i].PRFILE)
          /\ isinstance_str(merged[i].REPOURL) /\ UrlResolvesOf[merged[i].REPOURL.v]
          /\ ~ReachesCache(merged[i])
    /\ \E i \in 1..Len(calls) :
          world.files[calls[i].file_path].returncode \notin {0, 1}

-----------------------------------------------------------------------------
(* C10 *)

FlaggedRows == {i \in 1..Len(merged) : merged[i].VULNERABLEFILE = 1}

\* C10: while the loop runs, scanned_files equals the number of cache entries
\* and the number of analyzer invocations, scanned_files <= python_candidates
\* <= rows processed <= total_rows, at most python_candidates rows are
\* flagged, and neither counter ever decreases.
C10_LoopInvariant ==
    /\ [](Running =>
             /\ scanned_files = Cardinality(DOMAIN bandit_cache)
             /\ scanned_files = Len(calls)
             /\ scanned_files <= python_candidates
             /\ python_candidates <= idx
             /\ idx <= total_rows
             /\ Cardinality(FlaggedRows) <= python_candidates)
    /\ [][/\ python_candidates' >= python_candidates
          /\ scanned_files' >= scanned_files]_vars

\* a finished run in which the three counts differ
C10_Witness ==
    /\ pc = "done"
    /\ 1 <= scanned_files
    /\ scanned_files < python_candidates
    /\ python_candidates < idx
    /\ Cardinality(FlaggedRows) >= 1

=============================================================================
